---------------------------- MODULE Spec2Model ----------------------------
(***************************************************************************)
(* Model of src/src/query.rs: the InstantQueryBuilder (metric, the four    *)
(* label operations, at, timeout, build), the parameter lists of           *)
(* InstantQuery and RangeQuery, and the default Query::execute algorithm.  *)
(*                                                                         *)
(* Representation.  An Option<T> is a sequence of length at most one:     *)
(* <<>> is None and <<v>> is Some(v).  A string that the program only      *)
(* stores, compares or formats is a TLA+ string.  A string that the        *)
(* program parses (the arguments of at and timeout) is a sequence of       *)
(* one-character strings, so that the parsers below work character by      *)
(* character as the Rust code does; Str turns such a sequence into a       *)
(* TLA+ string.  A usize is kept as its canonical decimal digit sequence   *)
(* (no leading zeros), which lets the 64-bit overflow of parse::<usize>    *)
(* be modelled exactly.                                                    *)
(***************************************************************************)
EXTENDS Integers, Sequences, FiniteSets, TLC

None == <<>>
Some(v) == <<v>>
IsSome(o) == Len(o) = 1
Unwrap(o) == o[1]

\* Result<T, E>
Ok(v) == [ok |-> TRUE, val |-> v]
Err(e) == [ok |-> FALSE, err |-> e]

(***************************************************************************)
(* Characters and strings                                                  *)
(***************************************************************************)
DigitChars == <<"0", "1", "2", "3", "4", "5", "6", "7", "8", "9">>

IsDigit(c) == \E i \in 1..10 : DigitChars[i] = c

\* numeric value of a digit character
DigitVal(c) == (CHOOSE i \in 1..10 : DigitChars[i] = c) - 1

RECURSIVE Str(_)
\* the string spelled by a sequence of characters
Str(cs) ==
    IF cs = <<>> THEN ""
    ELSE IF Len(cs) = 1 THEN cs[1]
    ELSE Str(SubSeq(cs, 1, Len(cs) \div 2)) \o Str(SubSeq(cs, Len(cs) \div 2 + 1, Len(cs)))

RECURSIVE Concat(_)
\* [String]::concat
Concat(ss) == IF ss = <<>> THEN "" ELSE Head(ss) \o Concat(Tail(ss))

RECURSIVE Join(_, _)
\* [String]::join(sep)
Join(ss, sep) ==
    IF ss = <<>> THEN ""
    ELSE IF Len(ss) = 1 THEN ss[1]
    ELSE ss[1] \o sep \o Join(Tail(ss), sep)

EndsWith(s, suffix) ==
    /\ Len(s) >= Len(suffix)
    /\ SubSeq(s, Len(s) - Len(suffix) + 1, Len(s)) = suffix

\* str::strip_suffix(..).unwrap(), used only where EndsWith holds
StripSuffix(s, suffix) == SubSeq(s, 1, Len(s) - Len(suffix))


(***************************************************************************)
(* usize and its parser (core::num, used at query.rs:375..405)             *)
(***************************************************************************)
\* usize::MAX on a 64-bit target, 18446744073709551615
UsizeMax ==
    <<"1", "8", "4", "4", "6", "7", "4", "4", "0", "7",
      "3", "7", "0", "9", "5", "5", "1", "6", "1", "5">>

RECURSIVE StripLeadingZeros(_)
\* the canonical digits of a number given by a non-empty digit sequence
StripLeadingZeros(ds) ==
    IF Len(ds) > 1 /\ Head(ds) = "0" THEN StripLeadingZeros(Tail(ds)) ELSE ds

RECURSIVE LexLess(_, _)
\* digit-wise comparison of two digit sequences of equal length
LexLess(a, b) ==
    /\ a # <<>>
    /\ \/ DigitVal(Head(a)) < DigitVal(Head(b))
       \/ Head(a) = Head(b) /\ LexLess(Tail(a), Tail(b))

\* a < b for two canonical digit sequences
NumLess(a, b) == Len(a) < Len(b) \/ (Len(a) = Len(b) /\ LexLess(a, b))

\* str::parse::<usize>: an optional '+', then one or more ASCII digits, no
\* overflow.  Ok carries the canonical digits of the value.
ParseUsize(s) ==
    LET body == IF s # <<>> /\ Head(s) = "+" THEN Tail(s) ELSE s IN
    IF body = <<>> \/ \E i \in 1..Len(body) : ~IsDigit(body[i])
    THEN [ok |-> FALSE]
    ELSE LET n == StripLeadingZeros(body) IN
         IF NumLess(UsizeMax, n) THEN [ok |-> FALSE] ELSE [ok |-> TRUE, val |-> n]

(***************************************************************************)
(* Duration (query.rs:508..531)                                            *)
(***************************************************************************)
\* the variants of enum Duration in declaration order, which is the order
\* the derived Ord compares first
DurationVariants ==
    <<"Milliseconds", "Seconds", "Minutes", "Hours", "Days", "Weeks", "Years">>

VariantRank(v) == CHOOSE i \in 1..Len(DurationVariants) : DurationVariants[i] = v

\* derived Ord: by variant, then by the usize carried
DurationLess(a, b) ==
    \/ VariantRank(a.variant) < VariantRank(b.variant)
    \/ a.variant = b.variant /\ NumLess(a.num, b.num)

\* impl fmt::Display for Duration
DurationToString(d) ==
    Str(d.num) \o
    (CASE d.variant = "Milliseconds" -> "ms"
       [] d.variant = "Seconds" -> "s"
       [] d.variant = "Minutes" -> "m"
       [] d.variant = "Hours" -> "h"
       [] d.variant = "Days" -> "d"
       [] d.variant = "Weeks" -> "w"
       [] d.variant = "Years" -> "y")

RECURSIVE Insert(_, _)
Insert(d, sorted) ==
    IF sorted = <<>> THEN <<d>>
    ELSE IF DurationLess(Head(sorted), d)
         THEN <<Head(sorted)>> \o Insert(d, Tail(sorted))
         ELSE <<d>> \o sorted

RECURSIVE SortUnstable(_)
\* Vec<Duration>::sort_unstable: ascending by the derived Ord (elements that
\* compare equal are identical, so the result is unique)
SortUnstable(ds) ==
    IF ds = <<>> THEN <<>> ELSE Insert(Head(ds), SortUnstable(Tail(ds)))

(***************************************************************************)
(* InstantQueryBuilder::timeout (query.rs:366..421)                        *)
(***************************************************************************)
\* let chars = ['s', 'm', 'h', 'd', 'w', 'y'];
UnitChars == {"s", "m", "h", "d", "w", "y"}

RECURSIVE SplitCharsFrom(_, _, _)
SplitCharsFrom(s, set, cur) ==
    IF s = <<>> THEN (IF cur = <<>> THEN <<>> ELSE <<cur>>)
    ELSE IF Head(s) \in set
         THEN <<Append(cur, Head(s))>> \o SplitCharsFrom(Tail(s), set, <<>>)
         ELSE SplitCharsFrom(Tail(s), set, Append(cur, Head(s)))

\* str::split_inclusive with a set of characters as the pattern: every piece
\* ends with the first matching character after the previous piece; a
\* non-empty remainder is the last piece; the empty string has no pieces
SplitInclusiveChars(s, set) == SplitCharsFrom(s, set, <<>>)

RECURSIVE SplitStrFrom(_, _, _)
SplitStrFrom(s, pat, cur) ==
    IF s = <<>> THEN (IF cur = <<>> THEN <<>> ELSE <<cur>>)
    ELSE IF Len(s) >= Len(pat) /\ SubSeq(s, 1, Len(pat)) = pat
         THEN <<cur \o pat>> \o SplitStrFrom(SubSeq(s, Len(pat) + 1, Len(s)), pat, <<>>)
         ELSE SplitStrFrom(Tail(s), pat, Append(cur, Head(s)))

\* str::split_inclusive with a string as the pattern
SplitInclusiveStr(s, pat) == SplitStrFrom(s, pat, <<>>)

RECURSIVE SplitEachOnMs(_)
\* .map(|s| s.split_inclusive("ms")).flatten()
SplitEachOnMs(pieces) ==
    IF pieces = <<>> THEN <<>>
    ELSE SplitInclusiveStr(Head(pieces), <<"m", "s">>) \o SplitEachOnMs(Tail(pieces))

\* the tokens the closure of timeout is mapped over
DurationTokens(input) == SplitEachOnMs(SplitInclusiveChars(input, UnitChars))

\* one arm of the closure: strip the suffix, parse the rest as usize
ParseWithSuffix(d, suffix, variant) ==
    LET r == ParseUsize(StripSuffix(d, suffix)) IN
    IF r.ok THEN [ok |-> TRUE, val |-> [variant |-> variant, num |-> r.val]]
    ELSE [ok |-> FALSE]

\* the closure |d| of timeout: Err is BuilderError::InvalidTimeDuration
ParseDuration(d) ==
    IF EndsWith(d, <<"m", "s">>) THEN ParseWithSuffix(d, <<"m", "s">>, "Milliseconds")
    ELSE IF EndsWith(d, <<"s">>) THEN ParseWithSuffix(d, <<"s">>, "Seconds")
    ELSE IF EndsWith(d, <<"m">>) THEN ParseWithSuffix(d, <<"m">>, "Minutes")
    ELSE IF EndsWith(d, <<"h">>) THEN ParseWithSuffix(d, <<"h">>, "Hours")
    ELSE IF EndsWith(d, <<"d">>) THEN ParseWithSuffix(d, <<"d">>, "Days")
    ELSE IF EndsWith(d, <<"w">>) THEN ParseWithSuffix(d, <<"w">>, "Weeks")
    ELSE IF EndsWith(d, <<"y">>) THEN ParseWithSuffix(d, <<"y">>, "Years")
    ELSE [ok |-> FALSE]

RECURSIVE CollectDurations(_)
\* .map(closure).collect::<Result<Vec<Duration>, BuilderError>>(): the first
\* Err makes the whole result Err
CollectDurations(tokens) ==
    IF tokens = <<>> THEN [ok |-> TRUE, val |-> <<>>]
    ELSE LET h == ParseDuration(Head(tokens)) IN
         IF ~h.ok THEN [ok |-> FALSE]
         ELSE LET t == CollectDurations(Tail(tokens)) IN
              IF ~t.ok THEN [ok |-> FALSE]
              ELSE [ok |-> TRUE, val |-> <<h.val>> \o t.val]

\* let durations: Result<Vec<Duration>, BuilderError> = ...
ParseDurations(input) == CollectDurations(DurationTokens(input))

\* TimeoutAfter clearing the field when the parse fails
TimeoutAfter_clearing(old, input) ==
    LET durations == ParseDurations(input) IN
    IF durations.ok THEN Some(SortUnstable(durations.val)) ELSE None

\* the builder's timeout field after timeout(input): set to the sorted
\* durations when the parse succeeded, left as it was otherwise
TimeoutAfter(old, input) ==
    LET durations == ParseDurations(input) IN
    IF durations.ok THEN Some(SortUnstable(durations.val)) ELSE old

RECURSIVE MapDurationToString(_)
MapDurationToString(ds) ==
    IF ds = <<>> THEN <<>>
    ELSE <<DurationToString(Head(ds))>> \o MapDurationToString(Tail(ds))

\* build's `timeout`: the concatenated renderings of the durations
FormatTimeout(to) ==
    IF IsSome(to) THEN Some(Concat(MapDurationToString(Unwrap(to)))) ELSE None

(***************************************************************************)
(* f64::from_str and f64::to_string (query.rs:336..337)                    *)
(*                                                                         *)
(* A parsed f64 is [kind, neg, int, frac]: kind is "finite", "inf" or      *)
(* "nan".  Every finite f64 has one shortest decimal that reads back as    *)
(* it, the one to_string writes; int and frac are the digits of that       *)
(* decimal before and after the decimal point.  from_str rounds the        *)
(* decimal it reads to the nearest f64, so the digits kept are those of    *)
(* the rounded value, not of the input.                                    *)
(***************************************************************************)
AllDigits(s) == \A i \in 1..Len(s) : IsDigit(s[i])

\* ASCII lower case of the letters that matter to the float parser
LowerChar(c) ==
    CASE c = "I" -> "i" [] c = "N" -> "n" [] c = "F" -> "f" [] c = "A" -> "a"
      [] c = "T" -> "t" [] c = "Y" -> "y" [] c = "E" -> "e" [] OTHER -> c

Lower(s) == [i \in 1..Len(s) |-> LowerChar(s[i])]

RECURSIVE DigitsToInt(_)
\* the value of a short digit sequence
DigitsToInt(ds) ==
    IF ds = <<>> THEN 0
    ELSE DigitsToInt(SubSeq(ds, 1, Len(ds) - 1)) * 10 + DigitVal(ds[Len(ds)])

\* n zero digits
Zeros(n) == IF n <= 0 THEN <<>> ELSE [i \in 1..n |-> "0"]

RECURSIVE FirstOther(_, _, _, _)
\* the least index in lo..hi where s holds something other than z, or 0
FirstOther(s, z, lo, hi) ==
    IF lo > hi THEN 0
    ELSE IF lo = hi THEN (IF s[lo] # z THEN lo ELSE 0)
    ELSE LET mid == (lo + hi) \div 2
             l == FirstOther(s, z, lo, mid)
         IN IF l # 0 THEN l ELSE FirstOther(s, z, mid + 1, hi)

RECURSIVE LastOther(_, _, _, _)
\* the greatest index in lo..hi where s holds something other than z, or 0
LastOther(s, z, lo, hi) ==
    IF lo > hi THEN 0
    ELSE IF lo = hi THEN (IF s[lo] # z THEN lo ELSE 0)
    ELSE LET mid == (lo + hi) \div 2
             h == LastOther(s, z, mid + 1, hi)
         IN IF h # 0 THEN h ELSE LastOther(s, z, lo, mid)

StripTrailingZeros(ds) == SubSeq(ds, 1, LastOther(ds, "0", 1, Len(ds)))

\* index of the first character of s that is in set, or Len(s) + 1
FirstIn(s, set) ==
    IF \E i \in 1..Len(s) : s[i] \in set
    THEN CHOOSE i \in 1..Len(s) : s[i] \in set /\ \A j \in 1..(i - 1) : s[j] \notin set
    ELSE Len(s) + 1

(***************************************************************************)
(* Natural numbers of any size, as f64::from_str and the float formatter   *)
(* compute with (core::num::dec2flt, core::num::flt2dec): limbs in base    *)
(* 10^4, least significant first, without high zero limbs; <<>> is 0.      *)
(* Operations over the limbs split the range in halves, each half passing  *)
(* its carry to the next.                                                  *)
(***************************************************************************)
ZeroLimbs(n) == IF n <= 0 THEN <<>> ELSE [i \in 1..n |-> 0]

BigTrim(a) ==
    IF a = <<>> \/ a[Len(a)] # 0 THEN a ELSE SubSeq(a, 1, LastOther(a, 0, 1, Len(a)))

\* the number written by a digit sequence
BigFromDigits(ds) ==
    LET n == Len(ds) IN
    IF n = 0 THEN <<>>
    ELSE BigTrim([i \in 1..((n + 3) \div 4) |->
                    DigitsToInt(SubSeq(ds, IF n - 4 * i + 1 < 1 THEN 1 ELSE n - 4 * i + 1,
                                       n - 4 * i + 4))])

RECURSIVE MulSmallRange(_, _, _, _, _)
\* limbs lo..hi of a * m + carry and the carry out of them
MulSmallRange(a, m, lo, hi, carry) ==
    IF lo > hi THEN [limbs |-> <<>>, carry |-> carry]
    ELSE IF lo = hi
    THEN LET p == a[lo] * m + carry
         IN [limbs |-> <<p % 10000>>, carry |-> p \div 10000]
    ELSE LET mid == (lo + hi) \div 2
             l == MulSmallRange(a, m, lo, mid, carry)
             h == MulSmallRange(a, m, mid + 1, hi, l.carry)
         IN [limbs |-> l.limbs \o h.limbs, carry |-> h.carry]

\* a * m + c for m, c <= 10^4
BigMulSmallAdd(a, m, c) ==
    IF a = <<>> THEN (IF c = 0 THEN <<>> ELSE <<c>>)
    ELSE LET r == MulSmallRange(a, m, 1, Len(a), c)
         IN BigTrim(r.limbs \o <<r.carry>>)

BigMulSmall(a, m) == BigMulSmallAdd(a, m, 0)

RECURSIVE SmallPow(_, _)
SmallPow(x, k) == IF k <= 0 THEN 1 ELSE x * SmallPow(x, k - 1)

RECURSIVE BigMulPow2(_, _)
\* a * 2^k, a itself for k <= 0
BigMulPow2(a, k) ==
    IF k <= 0 \/ a = <<>> THEN a
    ELSE IF k <= 13 THEN BigMulSmall(a, SmallPow(2, k))
    ELSE BigMulPow2(BigMulPow2(a, k \div 2), k - k \div 2)

\* a * 10^k, a itself for k <= 0
BigMulPow10(a, k) ==
    IF k <= 0 \/ a = <<>> THEN a
    ELSE BigMulSmall(ZeroLimbs(k \div 4) \o a, SmallPow(10, k % 4))

RECURSIVE CmpRange(_, _, _, _)
\* -1, 0 or 1 as limbs lo..hi of a are below, equal to or above those of b
CmpRange(a, b, lo, hi) ==
    IF lo > hi THEN 0
    ELSE IF lo = hi
    THEN (IF a[lo] < b[lo] THEN -1 ELSE IF a[lo] > b[lo] THEN 1 ELSE 0)
    ELSE LET mid == (lo + hi) \div 2
             h == CmpRange(a, b, mid + 1, hi)
         IN IF h # 0 THEN h ELSE CmpRange(a, b, lo, mid)

BigCmp(a, b) ==
    IF Len(a) # Len(b) THEN (IF Len(a) < Len(b) THEN -1 ELSE 1)
    ELSE CmpRange(a, b, 1, Len(a))

RECURSIVE AddRange(_, _, _, _, _)
AddRange(a, b, lo, hi, carry) ==
    IF lo > hi THEN [limbs |-> <<>>, carry |-> carry]
    ELSE IF lo = hi
    THEN LET s == (IF lo <= Len(a) THEN a[lo] ELSE 0) +
                  (IF lo <= Len(b) THEN b[lo] ELSE 0) + carry
         IN [limbs |-> <<s % 10000>>, carry |-> s \div 10000]
    ELSE LET mid == (lo + hi) \div 2
             l == AddRange(a, b, lo, mid, carry)
             h == AddRange(a, b, mid + 1, hi, l.carry)
         IN [limbs |-> l.limbs \o h.limbs, carry |-> h.carry]

BigAdd(a, b) ==
    IF a = <<>> THEN b
    ELSE IF b = <<>> THEN a
    ELSE LET r == AddRange(a, b, 1, IF Len(a) > Len(b) THEN Len(a) ELSE Len(b), 0)
         IN BigTrim(r.limbs \o <<r.carry>>)

RECURSIVE SubRange(_, _, _, _, _)
SubRange(a, b, lo, hi, borrow) ==
    IF lo > hi THEN [limbs |-> <<>>, borrow |-> borrow]
    ELSE IF lo = hi
    THEN LET d == a[lo] - (IF lo <= Len(b) THEN b[lo] ELSE 0) - borrow
         IN [limbs |-> <<d % 10000>>, borrow |-> IF d < 0 THEN 1 ELSE 0]
    ELSE LET mid == (lo + hi) \div 2
             l == SubRange(a, b, lo, mid, borrow)
             h == SubRange(a, b, mid + 1, hi, l.borrow)
         IN [limbs |-> l.limbs \o h.limbs, borrow |-> h.borrow]

\* a - b for a >= b
BigSub(a, b) == IF b = <<>> THEN a ELSE BigTrim(SubRange(a, b, 1, Len(a), 0).limbs)

(***************************************************************************)
(* Decimal to f64 (dec2flt): the f64 nearest to the decimal, ties to the   *)
(* even mantissa.  A finite f64 other than 0 is q * 2^b with               *)
(* 2^52 <= q < 2^53 and -1074 <= b <= 971, or q < 2^52 and b = -1074.      *)
(***************************************************************************)
Two52 == BigMulPow2(<<1>>, 52)

Two53 == BigMulPow2(<<1>>, 53)

\* the decimal ds * 10^e10 in units of 2^b, as the fraction num / t of 2^53
Scaled(ds, e10, b) ==
    [num |-> BigMulPow2(BigMulPow10(BigFromDigits(ds), e10), -b - 53),
     t |-> BigMulPow2(BigMulPow10(<<1>>, -e10), b + 53),
     b |-> b]

RECURSIVE Normalize(_)
\* the least exponent from s.b on at which the quotient is below 2^53
Normalize(s) ==
    IF BigCmp(s.num, s.t) < 0 THEN s
    ELSE Normalize([s EXCEPT !.t = BigMulSmall(s.t, 2), !.b = s.b + 1])

RECURSIVE DivBits(_, _, _)
\* n binary digits of r / t for r < t: [q, r] with r * 2^n = q * t + r'
DivBits(r, t, n) ==
    IF r = <<>> THEN [q |-> <<>>, r |-> <<>>]
    ELSE IF n = 1
    THEN LET r2 == BigMulSmall(r, 2) IN
         IF BigCmp(r2, t) >= 0 THEN [q |-> <<1>>, r |-> BigSub(r2, t)]
         ELSE [q |-> <<>>, r |-> r2]
    ELSE LET h == DivBits(r, t, n \div 2)
             l == DivBits(h.r, t, n - n \div 2)
         IN [q |-> BigAdd(BigMulPow2(h.q, n - n \div 2), l.q), r |-> l.r]

\* q * 2^b as an f64, for q up to 2^53: 0 for q = 0, infinite from 2^1024 on
Finish(q, b) ==
    IF q = <<>> THEN [kind |-> "zero"]
    ELSE IF q = Two53 THEN (IF b + 1 > 971 THEN [kind |-> "inf"]
                            ELSE [kind |-> "finite", q |-> Two52, b |-> b + 1])
    ELSE IF b > 971 THEN [kind |-> "inf"]
    ELSE [kind |-> "finite", q |-> q, b |-> b]

\* the quotient d.q with remainder d.r of a division by t, rounded to the
\* nearest integer, a tie to the even one
RoundHalfEven(d, t, b) ==
    LET half == BigCmp(BigMulSmall(d.r, 2), t)
    IN Finish(IF half > 0 \/ (half = 0 /\ d.q # <<>> /\ d.q[1] % 2 = 1)
              THEN BigAdd(d.q, <<1>>) ELSE d.q, b)

\* the 53 bits of the quotient s, rounded
Quotient(s) == RoundHalfEven(DivBits(s.num, s.t, 53), s.t, s.b)

\* a lower bound of the binary exponent of the last mantissa bit of a value
\* in [10^sci, 10^(sci + 1)), not below that of the subnormal numbers
LowExponent(sci) ==
    IF (sci * 33219) \div 10000 - 53 < -1074 THEN -1074
    ELSE (sci * 33219) \div 10000 - 53

\* the f64 nearest to 0.sig * 10^point for digits sig without leading or
\* trailing zeros: [kind, q, b].  Digits after the 768th cannot decide a
\* tie and are kept as one.
NearestF64(sig, point) ==
    IF point - 1 >= 309 THEN [kind |-> "inf"]
    ELSE IF point - 1 < -324 THEN [kind |-> "zero"]
    ELSE IF Len(sig) > 768
    THEN Quotient(Normalize(Scaled(SubSeq(sig, 1, 768) \o <<"1">>, point - 769,
                                   LowExponent(point - 1))))
    ELSE Quotient(Normalize(Scaled(sig, point - Len(sig), LowExponent(point - 1))))

(***************************************************************************)
(* f64 to decimal (flt2dec, shortest mode): the fewest digits that read    *)
(* back as the same f64, and of those the nearest to it.                   *)
(***************************************************************************)
RECURSIVE DivDigit(_, _, _)
\* [d, r] with r0 = d * t + r and r < t, where r0 is r when d is 0
DivDigit(r, t, d) ==
    IF BigCmp(r, t) < 0 THEN [d |-> d, r |-> r]
    ELSE DivDigit(BigSub(r, t), t, d + 1)

\* a <= b when inclusive, a < b otherwise
Within(a, b, inclusive) == BigCmp(a, b) < (IF inclusive THEN 1 ELSE 0)

RECURSIVE Generate(_, _, _, _, _)
\* digit generation: mant / scale is what remains of the value in units of
\* the last digit, minus / scale and plus / scale the distances to the
\* neighbouring f64 midpoints, which count as inside when inclusive.  It
\* stops at the first digit where the digits so far, or they plus one in the
\* last place, lie between the midpoints, and takes the nearer of the two,
\* the upper one on a tie; the last digit is 10 when a 9 is rounded up
Generate(mant, scale, minus, plus, inclusive) ==
    LET dv == DivDigit(BigMulSmall(mant, 10), scale, 0)
        down == Within(dv.r, BigMulSmall(minus, 10), inclusive)
        up == Within(scale, BigAdd(dv.r, BigMulSmall(plus, 10)), inclusive)
    IN IF up /\ (~down \/ BigCmp(BigMulSmall(dv.r, 2), scale) >= 0)
       THEN <<dv.d + 1>>
       ELSE IF down THEN <<dv.d>>
       ELSE <<dv.d>> \o Generate(dv.r, scale, BigMulSmall(minus, 10),
                                 BigMulSmall(plus, 10), inclusive)

\* the digits after the carry of a last digit of 10, one more digit in front
\* when all digits before it are 9
RoundUpDigits(ds) ==
    IF ds[Len(ds)] # 10 THEN ds
    ELSE IF LastOther(ds, 9, 1, Len(ds) - 1) = 0
    THEN [j \in 1..(Len(ds) + 1) |-> IF j = 1 THEN 1 ELSE 0]
    ELSE [j \in 1..Len(ds) |->
             IF j < LastOther(ds, 9, 1, Len(ds) - 1) THEN ds[j]
             ELSE IF j = LastOther(ds, 9, 1, Len(ds) - 1) THEN ds[j] + 1 ELSE 0]

\* the f64 [kind, neg, int, frac] written 0.digits * 10^point: the digits
\* before and after the decimal point
Finite(neg, digits, point) ==
    [kind |-> "finite", neg |-> neg,
     int |-> IF point <= 0 THEN <<"0">>
             ELSE SubSeq(digits \o Zeros(point - Len(digits)), 1, point),
     frac |-> IF point >= Len(digits) THEN <<>>
              ELSE Zeros(-point) \o
                   SubSeq(digits, (IF point < 0 THEN 0 ELSE point) + 1, Len(digits))]

\* digits r, as numbers and with leading or trailing zeros, whose first
\* digit counts 10^(point - 1)
Significant(neg, r, point) ==
    Finite(neg,
           [j \in 1..(LastOther(r, 0, 1, Len(r)) - FirstOther(r, 0, 1, Len(r)) + 1) |->
               DigitChars[r[FirstOther(r, 0, 1, Len(r)) + j - 1] + 1]],
           point - (FirstOther(r, 0, 1, Len(r)) - 1))

\* the generated digits g, of which the first counts 10^(k - 1)
Rounded(neg, g, k) == Significant(neg, RoundUpDigits(g), k + Len(RoundUpDigits(g)) - Len(g))

\* the shortest decimal of q * 2^b, which is below 10^k
Shortest(neg, q, b, k) ==
    LET unit == BigMulPow2(BigMulPow10(<<1>>, -k), b - 2)
    IN Rounded(neg,
               Generate(BigMulPow2(BigMulPow10(BigMulSmall(q, 4), -k), b - 2),
                        BigMulPow2(BigMulPow10(<<1>>, k), 2 - b),
                        IF q = Two52 /\ b > -1074 THEN unit ELSE BigMulSmall(unit, 2),
                        BigMulSmall(unit, 2),
                        q[1] % 2 = 0),
               k)

\* what to_string writes for the f64 x, which is below 10^k
Written(neg, x, k) ==
    IF x.kind = "inf" THEN [kind |-> "inf", neg |-> neg, int |-> <<>>, frac |-> <<>>]
    ELSE IF x.kind = "zero" THEN Finite(neg, <<>>, 0)
    ELSE Shortest(neg, x.q, x.b, k)

\* the f64 read from 0.sig * 10^point, named by its shortest decimal.  A
\* decimal of at most 15 digits within the normal range is the shortest
\* decimal of the f64 nearest to it (10^15 < 2^52), so it names its own f64.
RoundDecimal(neg, sig, point) ==
    IF sig = <<>> THEN Finite(neg, <<>>, 0)
    ELSE IF Len(sig) <= 15 /\ point >= -306 /\ point <= 308 THEN Finite(neg, sig, point)
    ELSE Written(neg, NearestF64(sig, point), point + 1)

\* the decimal part of the float grammar: digits [ . digits ] [ (e|E) [sign] digits ],
\* with at least one mantissa digit
ParseDecimal(neg, s) ==
    LET ePos == FirstIn(s, {"e", "E"})
        mant == SubSeq(s, 1, ePos - 1)
        hasExp == ePos <= Len(s)
        expPart == SubSeq(s, ePos + 1, Len(s))
        expNeg == expPart # <<>> /\ Head(expPart) = "-"
        expDigits == IF expPart # <<>> /\ Head(expPart) \in {"+", "-"}
                     THEN Tail(expPart) ELSE expPart
        dot == FirstIn(mant, {"."})
        int == SubSeq(mant, 1, dot - 1)
        frac == SubSeq(mant, dot + 1, Len(mant))
    IN IF \/ ~AllDigits(int) \/ ~AllDigits(frac) \/ Len(int) + Len(frac) = 0
          \/ hasExp /\ (expDigits = <<>> \/ ~AllDigits(expDigits))
       THEN [ok |-> FALSE]
       ELSE LET all == int \o frac
                first == FirstOther(all, "0", 1, Len(all))
                sig == IF first = 0 THEN <<>>
                       ELSE SubSeq(all, first, LastOther(all, "0", 1, Len(all)))
                expFirst == FirstOther(expDigits, "0", 1, Len(expDigits))
                expSig == IF expFirst = 0 THEN <<>>
                          ELSE SubSeq(expDigits, expFirst, Len(expDigits))
                \* an exponent beyond any f64 is as good as 10^6
                expAbs == IF Len(expSig) > 6 THEN 1000000 ELSE DigitsToInt(expSig)
                e == IF hasExp THEN (IF expNeg THEN -1 ELSE 1) * expAbs ELSE 0
            IN [ok |-> TRUE, val |-> RoundDecimal(neg, sig, Len(int) - (first - 1) + e)]

\* f64::from_str: [sign] ( inf | infinity | nan | decimal ), nothing around it
ParseF64(s) ==
    LET signed == s # <<>> /\ Head(s) \in {"+", "-"}
        neg == s # <<>> /\ Head(s) = "-"
        body == IF signed THEN Tail(s) ELSE s
        low == Lower(body)
    IN IF low = <<"i", "n", "f">> \/ low = <<"i", "n", "f", "i", "n", "i", "t", "y">>
       THEN [ok |-> TRUE,
             val |-> [kind |-> "inf", neg |-> neg, int |-> <<>>, frac |-> <<>>]]
       ELSE IF low = <<"n", "a", "n">>
       THEN [ok |-> TRUE,
             val |-> [kind |-> "nan", neg |-> neg, int |-> <<>>, frac |-> <<>>]]
       ELSE ParseDecimal(neg, body)

\* f64::to_string (Display): never an exponent, no trailing ".0"
F64ToString(v) ==
    IF v.kind = "nan" THEN "NaN"
    ELSE (IF v.neg THEN "-" ELSE "") \o
         (IF v.kind = "inf" THEN "inf"
          ELSE Str(v.int) \o (IF v.frac = <<>> THEN "" ELSE "." \o Str(v.frac)))

(***************************************************************************)
(* DateTime::parse_from_rfc3339 and DateTime::to_rfc3339 (query.rs:338..339)*)
(*                                                                         *)
(* A parsed DateTime<FixedOffset> keeps the local date and time fields and *)
(* the offset, so it is [date, time, nanos, offNeg, offH, offM] with date  *)
(* "YYYY-MM-DD" and time "HH:MM:SS" as characters and nanos as nine        *)
(* digits.                                                                 *)
(***************************************************************************)
IsLeapYear(y) == (y % 4 = 0 /\ y % 100 # 0) \/ y % 400 = 0

DaysInMonth(y, m) ==
    IF m = 2 THEN (IF IsLeapYear(y) THEN 29 ELSE 28)
    ELSE IF m \in {4, 6, 9, 11} THEN 30 ELSE 31

\* the longest prefix of s made of digits
DigitPrefix(s) ==
    SubSeq(s, 1, FirstIn(s, {s[i] : i \in 1..Len(s)} \ {DigitChars[i] : i \in 1..10}) - 1)

\* U+2212 MINUS SIGN as one character of a parsed string; a string literal
\* of the module holds ASCII only, so the character is spelled by its code
\* point
MinusSign == "U+2212"

\* "Z", "z" or a sign, HH, ":" and MM with minutes below 60 and less than a
\* day in all; the sign is "+", "-" or U+2212
ParseOffset(s) ==
    IF s = <<"Z">> \/ s = <<"z">>
    THEN [ok |-> TRUE, neg |-> FALSE, h |-> <<"0", "0">>, m |-> <<"0", "0">>]
    ELSE IF /\ Len(s) = 6
            /\ s[1] \in {"+", "-", MinusSign}
            /\ AllDigits(SubSeq(s, 2, 3))
            /\ s[4] = ":"
            /\ AllDigits(SubSeq(s, 5, 6))
            /\ DigitsToInt(SubSeq(s, 5, 6)) <= 59
            /\ DigitsToInt(SubSeq(s, 2, 3)) <= 23
    THEN [ok |-> TRUE, neg |-> s[1] # "+", h |-> SubSeq(s, 2, 3), m |-> SubSeq(s, 5, 6)]
    ELSE [ok |-> FALSE]

\* date, one of "T", "t" and " ", time, an optional fraction, offset
ParseRfc3339(s) ==
    IF ~ /\ Len(s) >= 20
         /\ AllDigits(SubSeq(s, 1, 4)) /\ s[5] = "-"
         /\ AllDigits(SubSeq(s, 6, 7)) /\ s[8] = "-"
         /\ AllDigits(SubSeq(s, 9, 10)) /\ s[11] \in {"T", "t", " "}
         /\ AllDigits(SubSeq(s, 12, 13)) /\ s[14] = ":"
         /\ AllDigits(SubSeq(s, 15, 16)) /\ s[17] = ":"
         /\ AllDigits(SubSeq(s, 18, 19))
    THEN [ok |-> FALSE]
    ELSE LET year == DigitsToInt(SubSeq(s, 1, 4))
             month == DigitsToInt(SubSeq(s, 6, 7))
             day == DigitsToInt(SubSeq(s, 9, 10))
             rest == SubSeq(s, 20, Len(s))
             hasFrac == Head(rest) = "."
             fracDigits == IF hasFrac THEN DigitPrefix(Tail(rest)) ELSE <<>>
             off == ParseOffset(IF hasFrac
                                THEN SubSeq(rest, 2 + Len(fracDigits), Len(rest))
                                ELSE rest)
         IN IF \/ month < 1 \/ month > 12
               \/ day < 1 \/ day > DaysInMonth(year, month)
               \/ DigitsToInt(SubSeq(s, 12, 13)) > 23
               \/ DigitsToInt(SubSeq(s, 15, 16)) > 59
               \/ DigitsToInt(SubSeq(s, 18, 19)) > 60
               \/ hasFrac /\ fracDigits = <<>>
               \/ ~off.ok
            THEN [ok |-> FALSE]
            ELSE [ok |-> TRUE,
                  val |-> [date |-> SubSeq(s, 1, 10),
                           time |-> SubSeq(s, 12, 19),
                           nanos |-> SubSeq(fracDigits \o Zeros(9), 1, 9),
                           offNeg |-> off.neg, offH |-> off.h, offM |-> off.m]]

\* DateTime::to_rfc3339: 'T' separator, the fraction in 0, 3, 6 or 9 digits,
\* the offset as (+|-)HH:MM with UTC written +00:00
ToRfc3339(t) ==
    Str(t.date) \o "T" \o Str(t.time) \o
    (IF t.nanos = Zeros(9) THEN ""
     ELSE IF SubSeq(t.nanos, 4, 9) = Zeros(6) THEN "." \o Str(SubSeq(t.nanos, 1, 3))
     ELSE IF SubSeq(t.nanos, 7, 9) = Zeros(3) THEN "." \o Str(SubSeq(t.nanos, 1, 6))
     ELSE "." \o Str(t.nanos)) \o
    (IF t.offNeg /\ DigitsToInt(t.offH \o t.offM) # 0 THEN "-" ELSE "+") \o
    Str(t.offH) \o ":" \o Str(t.offM)

\* the result of at(time): Ok with the canonical string, or
\* Err(InvalidTimeSpecifier)
ParseTime(input) ==
    LET f == ParseF64(input) IN
    IF f.ok THEN [ok |-> TRUE, val |-> F64ToString(f.val)]
    ELSE LET d == ParseRfc3339(input) IN
         IF d.ok THEN [ok |-> TRUE, val |-> ToRfc3339(d.val)]
         ELSE [ok |-> FALSE]

(***************************************************************************)
(* InstantQueryBuilder (query.rs:129..498)                                 *)
(***************************************************************************)
\* impl Default for InstantQueryBuilder, which InstantQuery::builder() returns
Default == [metric |-> None, labels |-> None, time |-> None, timeout |-> None]

\* enum Label: the variant and its (label, value) pair
Label(variant, label, value) == [variant |-> variant, label |-> label, value |-> value]

\* metric with group_right missing from the keyword list
metric_missing_keyword(self, m) ==
    IF m \in {"bool", "on", "ignoring", "group_left"}
    THEN Err("InvalidMetricName")
    ELSE Ok([self EXCEPT !.metric = Some(m)])

metric(self, m) ==
    IF m \in {"bool", "on", "ignoring", "group_left", "group_right"}
    THEN Err("InvalidMetricName")
    ELSE Ok([self EXCEPT !.metric = Some(m)])

with_label(self, label, value) ==
    IF IsSome(self.labels)
    THEN [self EXCEPT !.labels = Some(Append(Unwrap(self.labels), Label("With", label, value)))]
    ELSE [self EXCEPT !.labels = Some(<<Label("With", label, value)>>)]

without_label(self, label, value) ==
    IF IsSome(self.labels)
    THEN [self EXCEPT !.labels = Some(Append(Unwrap(self.labels), Label("Without", label, value)))]
    ELSE [self EXCEPT !.labels = Some(<<Label("Without", label, value)>>)]

match_label(self, label, value) ==
    IF IsSome(self.labels)
    THEN [self EXCEPT !.labels = Some(Append(Unwrap(self.labels), Label("Matches", label, value)))]
    ELSE [self EXCEPT !.labels = Some(<<Label("Matches", label, value)>>)]

\* the else branch seeds the vector with Label::Matches (query.rs:296)
no_match_label(self, label, value) ==
    IF IsSome(self.labels)
    THEN [self EXCEPT !.labels = Some(Append(Unwrap(self.labels), Label("Clashes", label, value)))]
    ELSE [self EXCEPT !.labels = Some(<<Label("Matches", label, value)>>)]

\* at storing the argument as given instead of its canonical form
at_verbatim(self, input) ==
    IF ParseTime(input).ok THEN Ok([self EXCEPT !.time = Some(Str(input))])
    ELSE Err("InvalidTimeSpecifier")

at(self, input) ==
    LET r == ParseTime(input) IN
    IF r.ok THEN Ok([self EXCEPT !.time = Some(r.val)])
    ELSE Err("InvalidTimeSpecifier")

\* always Ok(self): a failed parse is dropped by the `if let Ok`
timeout(self, input) == Ok([self EXCEPT !.timeout = TimeoutAfter(self.timeout, input)])

\* the closure of build that renders one label matcher
FormatLabel(x) ==
    CASE x.variant = "With" -> x.label \o "=\"" \o x.value \o "\""
      [] x.variant = "Without" -> x.label \o "!=\"" \o x.value \o "\""
      [] x.variant = "Matches" -> x.label \o "=~\"" \o x.value \o "\""
      [] x.variant = "Clashes" -> x.label \o "!~\"" \o x.value \o "\""

RECURSIVE MapFormatLabel(_)
MapFormatLabel(ls) ==
    IF ls = <<>> THEN <<>> ELSE <<FormatLabel(Head(ls))>> \o MapFormatLabel(Tail(ls))

\* build's `labels`: the matchers joined with commas
FormatLabels(labels) ==
    IF IsSome(labels) THEN Some(Join(MapFormatLabel(Unwrap(labels)), ",")) ELSE None

\* build refusing every selector without a metric name
build_requires_metric(self) ==
    IF IsSome(self.metric)
    THEN Ok([kind |-> "InstantQuery",
             query |-> IF IsSome(FormatLabels(self.labels))
                       THEN Unwrap(self.metric) \o "{" \o Unwrap(FormatLabels(self.labels)) \o "}"
                       ELSE Unwrap(self.metric),
             time |-> self.time,
             timeout |-> FormatTimeout(self.timeout)])
    ELSE Err("IllegalVectorSelector")

build(self) ==
    LET to == FormatTimeout(self.timeout)
        labels == FormatLabels(self.labels)
    IN IF IsSome(self.metric)
       THEN Ok([kind |-> "InstantQuery",
                query |-> IF IsSome(labels)
                          THEN Unwrap(self.metric) \o "{" \o Unwrap(labels) \o "}"
                          ELSE Unwrap(self.metric),
                time |-> self.time,
                timeout |-> to])
       ELSE IF IsSome(labels)
            THEN Ok([kind |-> "InstantQuery",
                     query |-> "{" \o Unwrap(labels) \o "}",
                     time |-> self.time,
                     timeout |-> to])
            ELSE Err("IllegalVectorSelector")

(***************************************************************************)
(* Query (query.rs:10..127)                                                *)
(***************************************************************************)
\* InstantQueryParams pushing the timeout under the key "time"
InstantQueryParams_timeout_as_time(q) ==
    <<<<"query", q.query>>>>
    \o (IF IsSome(q.time) THEN <<<<"time", Unwrap(q.time)>>>> ELSE <<>>)
    \o (IF IsSome(q.timeout) THEN <<<<"time", Unwrap(q.timeout)>>>> ELSE <<>>)

\* impl Query<InstantQueryResponse> for InstantQuery
InstantQueryParams(q) ==
    <<<<"query", q.query>>>>
    \o (IF IsSome(q.time) THEN <<<<"time", Unwrap(q.time)>>>> ELSE <<>>)
    \o (IF IsSome(q.timeout) THEN <<<<"timeout", Unwrap(q.timeout)>>>> ELSE <<>>)

\* impl Query<RangeQueryResponse> for RangeQuery
RangeQueryParams(q) ==
    <<<<"query", q.query>>, <<"start", q.start>>, <<"end", q.end>>, <<"step", q.step>>>>
    \o (IF IsSome(q.timeout) THEN <<<<"timeout", Unwrap(q.timeout)>>>> ELSE <<>>)

\* trait dispatch on the query's type
get_query_params(q) ==
    IF q.kind = "InstantQuery" THEN InstantQueryParams(q) ELSE RangeQueryParams(q)

get_query_endpoint(q) ==
    IF q.kind = "InstantQuery" THEN "/query" ELSE "/query_range"

\* reqwest's Response::error_for_status fails on 4xx and 5xx
IsClientOrServerError(status) == status >= 400 /\ status <= 599

(***************************************************************************)
(* State                                                                   *)
(*                                                                         *)
(* A builder chain: `builder` is the value the chain holds, `live` is      *)
(* FALSE once a call returned Err (the call consumed the builder, and      *)
(* `builder` then holds Default as a placeholder).  `calls` is the history *)
(* of the calls of the chain, `prev` the builder the last call received,   *)
(* `result` what it returned ("Ok" or the BuilderError), `built` the       *)
(* Result of the last build() since the last call and `nbuilds` the number *)
(* of build() calls since then.                                            *)
(*                                                                         *)
(* An execution of Query::execute: `query` and `base_url` are its inputs,  *)
(* `pc` its position, `request` the request it issued, `gets` the number   *)
(* of requests issued, `response` what the server answered, and            *)
(* `statusChecked`, `jsonAttempted`, `outcome` what it did with it.        *)
(***************************************************************************)
VARIABLES builder, live, calls, prev, result, built, nbuilds,
          query, base_url, pc, request, gets, response,
          statusChecked, jsonAttempted, outcome

builderVars == <<builder, live, calls, prev, result, built, nbuilds>>
execVars == <<query, base_url, pc, request, gets, response,
              statusChecked, jsonAttempted, outcome>>
vars == <<builder, live, calls, prev, result, built, nbuilds,
          query, base_url, pc, request, gets, response,
          statusChecked, jsonAttempted, outcome>>

\* the longest chain of builder calls explored
MaxCalls == 3
\* the most build() calls in a row explored
MaxBuilds == 2

(***************************************************************************)
(* Inputs                                                                  *)
(***************************************************************************)
Metrics == {"up", "", "On", "bool", "on", "ignoring", "group_left", "group_right"}

LabelArgs == {<<"code", "200">>, <<"method", "GET">>}

TimeInputs ==
    {
      <<"1", "6", "1", "8", "9", "2", "2", "0", "1", "2">>,   \* "1618922012"
      <<"5", ".", "0">>,   \* "5.0"
      <<"2", "0", "2", "1", "-", "0", "4", "-", "2", "0", "T", "1", "4", ":", "3", "3", ":", "3", "2", "+", "0", "2", ":", "0", "0">>,   \* "2021-04-20T14:33:32+02:00"
      <<"2", "0", "2", "1", "-", "0", "4", "-", "2", "0", "t", "1", "4", ":", "3", "3", ":", "3", "2", ".", "5", "z">>,   \* "2021-04-20t14:33:32.5z"
      <<"1", "e", "3", "0", "9">>,   \* "1e309"
      <<"2", "0", "2", "1", "-", "0", "4", "-", "2", "0", " ", "1", "4", ":", "3", "3", ":", "3", "2", "Z">>,   \* "2021-04-20 14:33:32Z"
      <<"2", "0", "2", "1", "-", "0", "4", "-", "2", "0", "T", "1", "4", ":", "3", "3", ":", "3", "2", MinusSign, "0", "2", ":", "0", "0">>,   \* "2021-04-20T14:33:32" U+2212 "02:00"
      <<"y", "e", "s", "t", "e", "r", "d", "a", "y">>,   \* "yesterday"
      <<>>    \* ""
    }

TimeoutInputs ==
    {
      <<"3", "0", "s">>,   \* "30s"
      <<"2", "d", "1", "m">>,   \* "2d1m"
      <<"1", "m", "2", "d">>,   \* "1m2d"
      <<"1", "m", "3", "0", "s", "5", "0", "0", "m", "s">>,   \* "1m30s500ms"
      <<"3", "0", "s", "5", "0", "0", "m", "s">>,   \* "30s500ms"
      <<"1", "0", "x">>,   \* "10x"
      <<>>,   \* ""
      <<"1", ".", "5", "s">>,   \* "1.5s"
      <<"0", "0", "7", "s", "2", "s">>    \* "007s2s"
    }

InstantQueries ==
    [kind : {"InstantQuery"},
     query : {"up", "up{job=\"node\"}"},
     time : {None, Some("1618922012")},
     timeout : {None, Some("30s")}]

RangeQueries ==
    [kind : {"RangeQuery"},
     query : {"up"},
     start : {"2021-04-09T11:30:00.000+02:00"},
     end : {"2021-04-09T12:30:00.000+02:00"},
     step : {"5m"},
     timeout : {None, Some("30s")}]

BaseUrls == {"http://127.0.0.1:9090/api/v1", "https://prometheus.example/api/v1"}

Statuses == {200, 304, 404, 500}

Bodies == {"json", "malformed"}

(***************************************************************************)
(* The builder chain                                                       *)
(***************************************************************************)
InitBuilder ==
    /\ builder = Default
    /\ live = TRUE
    /\ calls = <<>>
    /\ prev = Default
    /\ result = "Ok"
    /\ built = None
    /\ nbuilds = 0

IdleExec ==
    /\ query = [kind |-> "InstantQuery", query |-> "up", time |-> None, timeout |-> None]
    /\ base_url = "http://127.0.0.1:9090/api/v1"
    /\ pc = "start"
    /\ request = None
    /\ gets = 0
    /\ response = None
    /\ statusChecked = FALSE
    /\ jsonAttempted = FALSE
    /\ outcome = None

Init == InitBuilder /\ IdleExec

\* one call of a method that takes the builder by value and returns r
Call(op, args, r) ==
    /\ live
    /\ Len(calls) < MaxCalls
    /\ calls' = Append(calls, [op |-> op, args |-> args])
    /\ prev' = builder
    /\ result' = (IF r.ok THEN "Ok" ELSE r.err)
    /\ live' = r.ok
    /\ builder' = (IF r.ok THEN r.val ELSE Default)
    /\ built' = None
    /\ nbuilds' = 0
    /\ UNCHANGED execVars

\* InstantQuery::builder()
NewBuilder ==
    /\ calls # <<>>
    /\ builder' = Default
    /\ live' = TRUE
    /\ calls' = <<>>
    /\ prev' = Default
    /\ result' = "Ok"
    /\ built' = None
    /\ nbuilds' = 0
    /\ UNCHANGED execVars

Metric == \E m \in Metrics : Call("metric", <<m>>, metric(builder, m))

WithLabel ==
    \E a \in LabelArgs : Call("with_label", a, Ok(with_label(builder, a[1], a[2])))

WithoutLabel ==
    \E a \in LabelArgs : Call("without_label", a, Ok(without_label(builder, a[1], a[2])))

MatchLabel ==
    \E a \in LabelArgs : Call("match_label", a, Ok(match_label(builder, a[1], a[2])))

NoMatchLabel ==
    \E a \in LabelArgs : Call("no_match_label", a, Ok(no_match_label(builder, a[1], a[2])))

At == \E t \in TimeInputs : Call("at", <<t>>, at(builder, t))

Timeout == \E t \in TimeoutInputs : Call("timeout", <<t>>, timeout(builder, t))

\* build moving the time out of the builder
BuildTaking ==
    /\ live
    /\ nbuilds < MaxBuilds
    /\ built' = Some(build(builder))
    /\ nbuilds' = nbuilds + 1
    /\ builder' = [builder EXCEPT !.time = None]
    /\ UNCHANGED <<live, calls, prev, result>>
    /\ UNCHANGED execVars

\* build(&self): the builder is only read
Build ==
    /\ live
    /\ nbuilds < MaxBuilds
    /\ built' = Some(build(builder))
    /\ nbuilds' = nbuilds + 1
    /\ UNCHANGED <<builder, live, calls, prev, result>>
    /\ UNCHANGED execVars

Next ==
    \/ NewBuilder
    \/ Metric
    \/ WithLabel
    \/ WithoutLabel
    \/ MatchLabel
    \/ NoMatchLabel
    \/ At
    \/ Timeout
    \/ Build

Spec == Init /\ [][Next]_vars

(***************************************************************************)
(* Query::execute (query.rs:40..60)                                        *)
(***************************************************************************)
InitExec ==
    /\ InitBuilder
    /\ query \in InstantQueries \cup RangeQueries
    /\ base_url \in BaseUrls
    /\ pc = "start"
    /\ request = None
    /\ gets = 0
    /\ response = None
    /\ statusChecked = FALSE
    /\ jsonAttempted = FALSE
    /\ outcome = None

\* lines 41..52, up to the await of send(): the URL is the base URL followed
\* by the endpoint, the parameters are those of the query
Send ==
    /\ pc = "start"
    /\ request' = Some([method |-> "GET",
                        url |-> base_url \o get_query_endpoint(query),
                        params |-> get_query_params(query)])
    /\ gets' = gets + 1
    /\ pc' = "awaiting_response"
    /\ UNCHANGED <<query, base_url, response, statusChecked, jsonAttempted, outcome>>
    /\ UNCHANGED builderVars

\* send().await? yields Err: execute returns it
SendFailed ==
    /\ pc = "awaiting_response"
    /\ outcome' = Some(Err("transport"))
    /\ pc' = "done"
    /\ UNCHANGED <<query, base_url, request, gets, response, statusChecked, jsonAttempted>>
    /\ UNCHANGED builderVars

\* the response handed to json() without error_for_status
ResponseArrivedUnchecked ==
    \E status \in Statuses, body \in Bodies :
        /\ pc = "awaiting_response"
        /\ response' = Some([status |-> status, body |-> body])
        /\ jsonAttempted' = TRUE
        /\ pc' = "awaiting_json"
        /\ UNCHANGED <<query, base_url, request, gets, statusChecked, outcome>>
        /\ UNCHANGED builderVars

\* send().await? yields a response: error_for_status, then either return its
\* Err or start reading the body as JSON
ResponseArrived ==
    \E status \in Statuses, body \in Bodies :
        /\ pc = "awaiting_response"
        /\ response' = Some([status |-> status, body |-> body])
        /\ statusChecked' = TRUE
        /\ IF IsClientOrServerError(status)
           THEN /\ outcome' = Some(Err("status"))
                /\ pc' = "done"
                /\ UNCHANGED jsonAttempted
           ELSE /\ jsonAttempted' = TRUE
                /\ pc' = "awaiting_json"
                /\ UNCHANGED outcome
        /\ UNCHANGED <<query, base_url, request, gets>>
        /\ UNCHANGED builderVars

\* res.json::<T>().await: its result is the result of execute
JsonDone ==
    /\ pc = "awaiting_json"
    /\ outcome' = Some(IF Unwrap(response).body = "json"
                       THEN Ok("response") ELSE Err("decode"))
    /\ pc' = "done"
    /\ UNCHANGED <<query, base_url, request, gets, response, statusChecked, jsonAttempted>>
    /\ UNCHANGED builderVars

NextExec ==
    \/ Send
    \/ SendFailed
    \/ ResponseArrived
    \/ JsonDone

SpecExec == InitExec /\ [][NextExec]_vars

(***************************************************************************)
(* Vocabulary of the properties                                            *)
(***************************************************************************)
HasCall == calls # <<>>
LastCall == calls[Len(calls)]
LastIs(op) == HasCall /\ LastCall.op = op
\* the argument of the last call, for the one-argument methods
LastArg == LastCall.args[1]

BuiltOk == IsSome(built) /\ Unwrap(built).ok
BuiltQuery == Unwrap(built).val

LabelOps == {"with_label", "without_label", "match_label", "no_match_label"}
LabelCallIndices == {i \in 1..Len(calls) : calls[i].op \in LabelOps}
MetricCallIndices == {i \in 1..Len(calls) : calls[i].op = "metric"}

\* in a live chain every call so far returned Ok
LabelCalled == LabelCallIndices # {}
MetricSet == MetricCallIndices # {}
LastMetric ==
    calls[CHOOSE i \in MetricCallIndices : \A j \in MetricCallIndices : j <= i].args[1]

\* the operator each label operation stands for
OperatorOf(op) ==
    CASE op = "with_label" -> "="
      [] op = "without_label" -> "!="
      [] op = "match_label" -> "=~"
      [] op = "no_match_label" -> "!~"

RECURSIVE ExpectedMatchers(_)
\* one entry per label call of the history cs, in call order
ExpectedMatchers(cs) ==
    IF cs = <<>> THEN <<>>
    ELSE IF Head(cs).op \in LabelOps
         THEN <<Head(cs).args[1] \o OperatorOf(Head(cs).op) \o "\"" \o Head(cs).args[2] \o "\"">>
              \o ExpectedMatchers(Tail(cs))
         ELSE ExpectedMatchers(Tail(cs))

\* the duration literal grammar of the specification: <integer><unit> tokens,
\* the unit "ms" recognised before "m" and "s"
RECURSIVE LiteralTokens(_)
LiteralTokens(s) ==
    IF s = <<>> THEN Ok(<<>>)
    ELSE LET digits == DigitPrefix(s)
             rest == SubSeq(s, Len(digits) + 1, Len(s))
             unit == IF Len(rest) >= 2 /\ SubSeq(rest, 1, 2) = <<"m", "s">>
                     THEN <<"m", "s">>
                     ELSE IF rest # <<>> /\ Head(rest) \in UnitChars
                          THEN <<Head(rest)>> ELSE <<>>
         IN IF digits = <<>> \/ unit = <<>> THEN [ok |-> FALSE]
            ELSE LET t == LiteralTokens(SubSeq(rest, Len(unit) + 1, Len(rest))) IN
                 IF t.ok THEN Ok(<<[digits |-> digits, unit |-> unit]>> \o t.val)
                 ELSE [ok |-> FALSE]

UnitOrder == <<"ms", "s", "m", "h", "d", "w", "y">>
UnitRank(unit) == CHOOSE i \in 1..Len(UnitOrder) : UnitOrder[i] = Str(unit)

\* a token as the canonical output writes it
RenderToken(t) == Str(StripLeadingZeros(t.digits)) \o Str(t.unit)

\* out is the tokens toks re-rendered in ascending unit rank
IsCanonicalOf(out, toks) ==
    \E p \in Permutations(1..Len(toks)) :
        /\ \A i \in 1..(Len(toks) - 1) : UnitRank(toks[p[i]].unit) <= UnitRank(toks[p[i + 1]].unit)
        /\ out = Concat([i \in 1..Len(toks) |-> RenderToken(toks[p[i]])])

RECURSIVE Flatten(_)
\* the literal a sequence of tokens spells
Flatten(toks) ==
    IF toks = <<>> THEN <<>>
    ELSE Head(toks).digits \o Head(toks).unit \o Flatten(Tail(toks))

ReservedKeywords == {"bool", "on", "ignoring", "group_left", "group_right"}

(***************************************************************************)
(* Properties                                                              *)
(***************************************************************************)
\* C1: build() returns metric{matchers} when a metric is set and a label
\* operation was called, metric alone when only a metric is set, {matchers}
\* when only a label operation was called, and Err(IllegalVectorSelector)
\* exactly when neither happened.
C1_BuildShape ==
    IsSome(built) =>
        IF ~MetricSet /\ ~LabelCalled
        THEN Unwrap(built) = Err("IllegalVectorSelector")
        ELSE /\ Unwrap(built).ok
             /\ BuiltQuery.query =
                    (IF MetricSet THEN LastMetric ELSE "") \o
                    (IF LabelCalled
                     THEN "{" \o Unwrap(FormatLabels(builder.labels)) \o "}"
                     ELSE "")

\* a query built from a chain that set a metric and called a label operation
C1_Witness == BuiltOk /\ MetricSet /\ LabelCalled /\ BuiltQuery.query = "up{code=\"200\"}"

\* C2: the matcher list rendered by build() has one entry per label call, in
\* call order, each with the operator of the operation that added it (= for
\* with_label, != for without_label, =~ for match_label, !~ for
\* no_match_label), also when the call is the first label operation.
C2_MatcherPerCall ==
    BuiltOk /\ LabelCalled =>
        BuiltQuery.query =
            (IF MetricSet THEN LastMetric ELSE "") \o
            "{" \o Join(ExpectedMatchers(calls), ",") \o "}"

\* C3: for an input that is a concatenation of <integer><unit> tokens with
\* units among ms, s, m, h, d, w, y, timeout(input) followed by build() yields
\* the same tokens re-rendered in ascending unit rank; "1m30s500ms" yields
\* "500ms30s1m".
C3_TimeoutCanonical ==
    LastIs("timeout") /\ BuiltOk =>
        LET toks == LiteralTokens(LastArg) IN
        toks.ok =>
            /\ IsSome(BuiltQuery.timeout)
            /\ IsCanonicalOf(Unwrap(BuiltQuery.timeout), toks.val)

\* C4 as stated: timeout() never returns an error, and after an input that is
\* no duration literal the timeout is unset and a query built afterwards
\* carries no timeout, also when an earlier timeout() call had succeeded.
C4_TimeoutUnsetOnFailure ==
    LastIs("timeout") =>
        /\ result = "Ok" /\ live
        /\ ~LiteralTokens(LastArg).ok =>
               /\ builder.timeout = None
               /\ BuiltOk => BuiltQuery.timeout = None

\* C4 amended: timeout() never returns an error, and after an input that
\* fails to parse the builder is as it was before the call: the timeout is
\* unset if no earlier timeout() call of the chain had set it, and the
\* earlier value otherwise; a query built afterwards carries that timeout.
C4_TimeoutKeptOnFailure ==
    LastIs("timeout") =>
        /\ result = "Ok" /\ live
        /\ ~ParseDurations(LastArg).ok =>
               /\ builder = prev
               /\ (\A i \in 1..(Len(calls) - 1) :
                       calls[i].op = "timeout" => ~ParseDurations(calls[i].args[1]).ok)
                  => builder.timeout = None
               /\ BuiltOk => BuiltQuery.timeout = FormatTimeout(prev.timeout)

\* a failed timeout() after a successful one, then a build
C4_Witness ==
    /\ LastIs("timeout") /\ LastArg = <<"1", "0", "x">>
    /\ IsSome(prev.timeout)
    /\ BuiltOk /\ BuiltQuery.timeout = Some("30s")

\* C5: metric(name) returns Err(InvalidMetricName) exactly for bool, on,
\* ignoring, group_left, group_right; any other string, the empty one
\* included, is stored verbatim, replaces the previous metric and leaves
\* labels, time and timeout unchanged.
C5_MetricValidation ==
    LastIs("metric") =>
        /\ result = "InvalidMetricName" <=> LastArg \in ReservedKeywords
        /\ LastArg \notin ReservedKeywords =>
               /\ result = "Ok" /\ live
               /\ builder.metric = Some(LastArg)
               /\ builder.labels = prev.labels
               /\ builder.time = prev.time
               /\ builder.timeout = prev.timeout

\* the empty name replacing an earlier metric on a builder that has labels
C5_Witness ==
    /\ LastIs("metric") /\ LastArg = ""
    /\ prev.metric = Some("up") /\ IsSome(prev.labels)
    /\ live

\* C6: at(s) stores the re-stringified number when s parses as a number,
\* else the RFC3339 re-serialisation when s parses as RFC3339, else returns
\* Err(InvalidTimeSpecifier); the stored form replaces an earlier one.
C6_TimeSpecifier ==
    LastIs("at") =>
        LET f == ParseF64(LastArg)
            d == ParseRfc3339(LastArg)
        IN /\ f.ok => result = "Ok" /\ builder.time = Some(F64ToString(f.val))
           /\ ~f.ok /\ d.ok => result = "Ok" /\ builder.time = Some(ToRfc3339(d.val))
           /\ ~f.ok /\ ~d.ok => result = "InvalidTimeSpecifier" /\ ~live
           /\ Str(LastArg) = "1618922012" => builder.time = Some("1618922012")
           /\ Str(LastArg) = "5.0" => builder.time = Some("5")
           /\ Str(LastArg) = "2021-04-20T14:33:32+02:00"
                  => builder.time = Some("2021-04-20T14:33:32+02:00")
           /\ Str(LastArg) = "2021-04-20t14:33:32.5z"
                  => builder.time = Some("2021-04-20T14:33:32.500+00:00")
           /\ Str(LastArg) = "1e309" => builder.time = Some("inf")
           /\ Str(LastArg) = "2021-04-20 14:33:32Z"
                  => builder.time = Some("2021-04-20T14:33:32+00:00")
           /\ Len(LastArg) = 25 /\ LastArg[20] = MinusSign
                  => builder.time = Some("2021-04-20T14:33:32-02:00")
           /\ Str(LastArg) \in {"yesterday", ""} => result = "InvalidTimeSpecifier"

\* a numeric time replacing an RFC3339 time stored by an earlier at()
C6_Witness ==
    /\ LastIs("at") /\ Str(LastArg) = "5.0"
    /\ prev.time = Some("2021-04-20T14:33:32+02:00")
    /\ builder.time = Some("5")

\* C7: the parameters sent are query, then time iff set, then timeout iff set
\* for an InstantQuery, and query, start, end, step, then timeout iff set for
\* a RangeQuery, each with the query's value and no key twice; the endpoint is
\* /query for an InstantQuery and /query_range for a RangeQuery.
C7_QueryParams ==
    IsSome(request) =>
        LET ps == Unwrap(request).params
            optional(key, o) == IF IsSome(o) THEN <<<<key, Unwrap(o)>>>> ELSE <<>>
        IN /\ \A i, j \in 1..Len(ps) : ps[i][1] = ps[j][1] => i = j
           /\ IF query.kind = "InstantQuery"
              THEN /\ ps = <<<<"query", query.query>>>>
                           \o optional("time", query.time)
                           \o optional("timeout", query.timeout)
                   /\ Unwrap(request).url = base_url \o "/query"
              ELSE /\ ps = <<<<"query", query.query>>, <<"start", query.start>>,
                             <<"end", query.end>>, <<"step", query.step>>>>
                           \o optional("timeout", query.timeout)
                   /\ Unwrap(request).url = base_url \o "/query_range"

\* an instant query with a time and a timeout has been sent
C7_Witness ==
    /\ IsSome(request)
    /\ query.kind = "InstantQuery" /\ IsSome(query.time) /\ IsSome(query.timeout)
    /\ Len(Unwrap(request).params) = 3

\* C8: execute() issues exactly one GET to base_url followed by the endpoint;
\* a transport failure is returned without status check or JSON
\* deserialisation; a client/server error status is returned as an error
\* without JSON deserialisation; JSON deserialisation happens only after the
\* status check passed, and its failure is returned; a finished run has
\* exactly one of these four outcomes.
C8_ExecuteOutcomes ==
    /\ gets = (IF pc = "start" THEN 0 ELSE 1)
    /\ IsSome(request) <=> pc # "start"
    /\ IsSome(request) =>
           /\ Unwrap(request).method = "GET"
           /\ Unwrap(request).url = base_url \o get_query_endpoint(query)
    /\ jsonAttempted =>
           /\ statusChecked /\ IsSome(response)
           /\ Unwrap(response).status \notin 400..599
    /\ IsSome(outcome) <=> pc = "done"
    /\ pc = "done" =>
           \/ /\ outcome = Some(Err("transport"))
              /\ response = None /\ ~statusChecked /\ ~jsonAttempted
           \/ /\ outcome = Some(Err("status"))
              /\ statusChecked /\ ~jsonAttempted
              /\ Unwrap(response).status \in 400..599
           \/ /\ outcome = Some(Err("decode"))
              /\ jsonAttempted /\ Unwrap(response).body = "malformed"
           \/ /\ outcome = Some(Ok("response"))
              /\ jsonAttempted /\ Unwrap(response).body = "json"

\* a run that ended on a 404 without touching the body
C8_Witness ==
    /\ pc = "done" /\ outcome = Some(Err("status"))
    /\ Unwrap(response).status = 404 /\ ~jsonAttempted /\ gets = 1

\* C9: the timeout string produced by build() does not depend on the order of
\* the tokens given to timeout(): every permutation of the input's tokens
\* yields the identical timeout string, with the tokens in ascending unit
\* rank.
C9_TimeoutOrderIndependent ==
    LastIs("timeout") /\ BuiltOk =>
        LET toks == LiteralTokens(LastArg) IN
        toks.ok =>
            /\ \A p \in Permutations(1..Len(toks.val)) :
                   FormatTimeout(TimeoutAfter(prev.timeout,
                       Flatten([i \in 1..Len(toks.val) |-> toks.val[p[i]]])))
                   = BuiltQuery.timeout
            /\ IsSome(BuiltQuery.timeout)
            /\ IsCanonicalOf(Unwrap(BuiltQuery.timeout), toks.val)

\* C10: build() leaves metric, labels, time and timeout as they were, whether
\* it succeeds or fails; build() called again right after returns an equal
\* result; the time of a built query is the builder's stored time.
C10_BuildReadsOnly ==
    [][nbuilds' = nbuilds + 1 =>
          /\ builder' = builder
          /\ live' = live
          /\ IsSome(built) => built' = built
          /\ Unwrap(built').ok => Unwrap(built').val.time = builder.time
       ]_vars

\* a second build() in a row on a builder with a stored time
C10_Witness ==
    /\ nbuilds = 2 /\ BuiltOk
    /\ builder.time = Some("5") /\ BuiltQuery.time = Some("5")

=============================================================================
